---- MODULE Spec2Model ----
(***************************************************************************)
(* Q-A-System: document indexing into a Pinecone index and retrieval.      *)
(*                                                                         *)
(* The module models                                                       *)
(*   - the Pinecone service as PineconeManager uses it (has_index,         *)
(*     create_index, index.upsert, index.delete with a hash filter,        *)
(*     index.query),                                                       *)
(*   - PineconeManager (src/src/database.py): constructor, the lazy index  *)
(*     creation, upsert as the sequence of store calls it makes,           *)
(*     delete_by_hash and query,                                           *)
(*   - DocumentLoader.load over a directory tree and the loaders of the    *)
(*     file types (src/src/document_loader.py),                            *)
(*   - EmbeddingsIndexer.aembed_documents (src/src/embeddings.py),         *)
(*   - run_indexing, the retriever and the interactive loop of             *)
(*     run_query_mode (src/main.py).                                       *)
(*                                                                         *)
(* An upsert call is a sequence of steps, one per store call, so that the  *)
(* order of the store calls and a process dying between two of them are    *)
(* states of the model.                                                    *)
(***************************************************************************)
EXTENDS Integers, Sequences, FiniteSets, TLC

VARIABLES
    hasIndex,      \* pc.has_index(index_name)
    indexDim,      \* the dimension the index was created with (0: no index)
    createCalls,   \* number of pc.create_index calls made so far
    store,         \* the vectors of namespace "__default__": a set of records
    mgr,           \* the PineconeManager objects of the running process
    call,          \* the upsert call in progress (pc = "idle": none)
    crash,         \* the upsert call the last process death interrupted
    nextUuid,      \* number of uuid4 values drawn so far
    files,         \* the bytes of each file on disk
    runs,          \* the completed run_indexing invocations
    result         \* what the last query or retriever call returned

vars == <<hasIndex, indexDim, createCalls, store, mgr, call, crash, nextUuid,
          files, runs, result>>

(***************************************************************************)
(* Bounds of the model.                                                    *)
(***************************************************************************)
\* longest item list handed to one upsert call
MaxItems == 2
\* number of uuid4 values the embedder may draw
MaxUuid == 3
\* number of run_indexing invocations recorded
MaxRuns == 2
\* chunk_size and chunk_overlap of the splitter, scaled to the model's texts
ChunkSize == 2
ChunkOverlap == 0
\* number of files of the file system load is run on
MaxFiles == 2
\* number of prompts of one query session
MaxAsk == 3

\* default batch_size of upsert
BatchSizeDefault == 100
\* top_k of the retriever's query
TopK == 5

Managers == {"m1", "m2"}
\* the values of batch_size a caller of upsert passes
BatchSizes == {1, 2}
\* contents a file can have; "b0" is the empty file
Bytes == {"b0", "b1", "b2"}
FileNames == {"a.txt"}

\* _compute_file_hash: the SHA-256 digest of the bytes, distinct for distinct
\* bytes
Sha256(b) == CASE b = "b0" -> "h0" [] b = "b1" -> "h1" [] b = "b2" -> "h2"

Hashes == {"h1", "h2"}
\* the length of the vectors the embedding model returns
ModelDim == 2

None == "None"
Handle == "Index"
Namespace == "__default__"

Min(a, b) == IF a < b THEN a ELSE b

Range(s) == {s[i] : i \in DOMAIN s}

\* a vector of length d
Vec(d) == [i \in 1..d |-> 0]

\* str(uuid.uuid4()): a value no earlier draw returned; n is the number of
\* draws made before this one
Uuid4(n) == <<"uuid4", n + 1>>

(***************************************************************************)
(* The Pinecone index: upsert overwrites by id, delete removes by filter.  *)
(***************************************************************************)
IdsOf(vectors) == {vectors[i].id : i \in DOMAIN vectors}

IndexUpsert(s, vectors) ==
    {r \in s : r.id \notin IdsOf(vectors)} \cup Range(vectors)

\* the service takes only vectors of the dimension the index was created with
IndexAccepts(vectors) ==
    \A i \in DOMAIN vectors : Len(vectors[i].values) = indexDim

HasHash(md) == "hash" \in DOMAIN md

IndexDelete(s, file_hash) ==
    {r \in s : ~(HasHash(r.metadata) /\ r.metadata.hash = file_hash)}

StoredOf(s, source) == {r \in s : r.metadata.source = source}

StoredWith(s, h) == {r \in s : HasHash(r.metadata) /\ r.metadata.hash = h}

(***************************************************************************)
(* PineconeManager                                                         *)
(***************************************************************************)
NoManager == [alive |-> FALSE, index |-> None, index_was_created |-> FALSE]

NoCall == [pc |-> "idle"]

NoCrash == [items |-> <<>>, log |-> <<>>, pre |-> {}, happened |-> FALSE]

NoRun == [source |-> None]

NoResult == [op |-> None]

\* _get_or_create_index(dimension); dimension 0 stands for the default None.
\* created: create_index was called and index_was_created was set.
GetOrCreateIndexAlways(has, dimension) ==
    IF dimension # 0
    THEN [index |-> Handle, created |-> TRUE]
    ELSE [index |-> IF has THEN Handle ELSE None, created |-> FALSE]

GetOrCreateIndex(has, dimension) ==
    IF has
    THEN [index |-> Handle, created |-> FALSE]
    ELSE IF dimension # 0
         THEN [index |-> Handle, created |-> TRUE]
         ELSE [index |-> None, created |-> FALSE]

\* the manager __init__ makes: it holds the index if the index exists
NewManager ==
    [alive |-> TRUE, index |-> GetOrCreateIndex(hasIndex, 0).index,
     index_was_created |-> FALSE]

\* __init__: a missing client or an empty index name raises ValueError and no
\* manager comes to be; otherwise the new manager connects to the index if it
\* exists.  m is the variable of the caller the new manager is assigned to.
Construct(m, pinecone_client, index_name) ==
    /\ call.pc = "idle"
    /\ IF pinecone_client = None \/ index_name = ""
       THEN mgr' = mgr
       ELSE mgr' = [mgr EXCEPT ![m] = NewManager]
    /\ result' = NoResult
    /\ UNCHANGED <<hasIndex, indexDim, createCalls, store, call, crash,
                   nextUuid, files, runs>>

\* The hashes of the items that carry one, in the order of their first
\* occurrence (the key order of items_by_hash).
RECURSIVE HashOrder(_)
HashOrder(items) ==
    IF items = <<>> THEN <<>>
    ELSE LET front == HashOrder(SubSeq(items, 1, Len(items) - 1))
             last == items[Len(items)]
         IN  IF HasHash(last.metadata) /\ last.metadata.hash \notin Range(front)
             THEN Append(front, last.metadata.hash)
             ELSE front

ItemsWithHashOrNone(items, h) ==
    SelectSeq(items, LAMBDA it : HasHash(it.metadata) => it.metadata.hash = h)

ItemsWithHash(items, h) ==
    SelectSeq(items, LAMBDA it : HasHash(it.metadata) /\ it.metadata.hash = h)

\* items_by_hash as the sequence of its (key, value) pairs
GroupByHash(items) ==
    LET order == HashOrder(items)
    IN  [g \in DOMAIN order |->
            [hash |-> order[g], items |-> ItemsWithHash(items, order[g])]]

\* the vectors of one index.upsert call
ToUpsert(batch) ==
    [i \in DOMAIN batch |->
        [id |-> batch[i].id, values |-> batch[i].embedding,
         metadata |-> batch[i].metadata]]

\* The part of upsert before its loop: the early return on no items, the index
\* creation by a manager that holds no index, the grouping.  managers are the
\* managers of the calling process, m the one upsert is called on.
BeginUpsert(managers, m, items, batch_size, run) ==
    LET needIndex == managers[m].index = None
        dim == IF items = <<>> THEN 0 ELSE Len(items[1].embedding)
        got == IF needIndex /\ dim # 0
               THEN GetOrCreateIndex(hasIndex, dim)
               ELSE [index |-> managers[m].index, created |-> FALSE]
        base == [pc |-> "group", mgr |-> m, items |-> items,
                 batch_size |-> batch_size, groups |-> <<>>, gi |-> 1,
                 bi |-> 0, log |-> <<>>, pre |-> store, created |-> FALSE,
                 run |-> run]
    IN  IF items = <<>>
        THEN /\ call' = [base EXCEPT !.pc = "returned"]
             /\ mgr' = managers
             /\ UNCHANGED <<hasIndex, indexDim, createCalls>>
        ELSE IF needIndex /\ dim = 0
        THEN /\ call' = [base EXCEPT !.pc = "raised"]
             /\ mgr' = managers
             /\ UNCHANGED <<hasIndex, indexDim, createCalls>>
        ELSE /\ mgr' = [managers EXCEPT
                          ![m].index = got.index,
                          ![m].index_was_created = @ \/ got.created]
             /\ hasIndex' = (hasIndex \/ got.created)
             /\ indexDim' = IF got.created THEN dim ELSE indexDim
             /\ createCalls' = createCalls + IF got.created THEN 1 ELSE 0
             /\ call' = [base EXCEPT !.groups = GroupByHash(items),
                                     !.created = got.created]

\* delete_by_hash: index.delete with the filter {"hash": {"$eq": file_hash}}
DeleteByHashNothing(s, file_hash) == s

DeleteByHash(s, file_hash) == IndexDelete(s, file_hash)

\* line 87: the delete step is taken unless index_was_created is set
DeleteFirstNever(m) == FALSE

DeleteFirst(m) == ~mgr[m].index_was_created

\* the batch of the current group that starts at offset i
BatchAtStart(group_items, i, batch_size) ==
    SubSeq(group_items, 1, Min(batch_size, Len(group_items)))

BatchAt(group_items, i, batch_size) ==
    SubSeq(group_items, i + 1, Min(i + batch_size, Len(group_items)))

\* the store calls of upsert as its log records them: index.delete with the
\* hash filter and index.upsert, and whether the call raised
DeleteCall(file_hash, raised) ==
    [op |-> "delete", hash |-> file_hash, namespace |-> Namespace,
     raised |-> raised]

UpsertCall(file_hash, vectors, raised) ==
    [op |-> "upsert", hash |-> file_hash, vectors |-> vectors,
     namespace |-> Namespace, raised |-> raised]

\* a store call raised inside upsert: neither upsert nor delete_by_hash has a
\* try statement, the exception leaves upsert
OnStoreErrorRetry(c) == c

OnStoreError(c) == [c EXCEPT !.pc = "raised"]

\* One iteration of the loop over items_by_hash, up to its first insert: the
\* delete of the group's hash.
UpsertGroup ==
    /\ call.pc = "group"
    /\ call.gi <= Len(call.groups)
    /\ LET h == call.groups[call.gi].hash
       IN  IF DeleteFirst(call.mgr)
           THEN /\ store' = DeleteByHash(store, h)
                /\ call' = [call EXCEPT
                              !.pc = "batch", !.bi = 0,
                              !.log = Append(@, DeleteCall(h, FALSE))]
           ELSE /\ store' = store
                /\ call' = [call EXCEPT !.pc = "batch", !.bi = 0]
    /\ UNCHANGED <<hasIndex, indexDim, createCalls, mgr, crash, nextUuid,
                   files, runs, result>>

\* One index.upsert call of the batch loop.  The service refuses vectors whose
\* length is not the index's dimension: the call raises and stores nothing.
UpsertBatch ==
    /\ call.pc = "batch"
    /\ LET g == call.groups[call.gi]
           vectors == ToUpsert(BatchAt(g.items, call.bi, call.batch_size))
           more == call.bi + call.batch_size < Len(g.items)
           sent == Append(call.log,
                          UpsertCall(g.hash, vectors, ~IndexAccepts(vectors)))
       IN  IF IndexAccepts(vectors)
           THEN /\ store' = IndexUpsert(store, vectors)
                /\ call' = [call EXCEPT
                              !.log = sent,
                              !.bi = IF more THEN @ + call.batch_size ELSE 0,
                              !.gi = IF more THEN @ ELSE @ + 1,
                              !.pc = IF more THEN "batch" ELSE "group"]
           ELSE /\ store' = store
                /\ call' = OnStoreError([call EXCEPT !.log = sent])
    /\ UNCHANGED <<hasIndex, indexDim, createCalls, mgr, crash, nextUuid,
                   files, runs, result>>

\* The store is unavailable: the store call upsert makes next raises and
\* changes nothing in the index.
StoreRaises ==
    /\ \/ call.pc = "group" /\ call.gi <= Len(call.groups)
                             /\ DeleteFirst(call.mgr)
       \/ call.pc = "batch"
    /\ LET g == call.groups[call.gi]
           failed == IF call.pc = "group"
                     THEN DeleteCall(g.hash, TRUE)
                     ELSE UpsertCall(g.hash,
                            ToUpsert(BatchAt(g.items, call.bi, call.batch_size)),
                            TRUE)
       IN  call' = OnStoreError([call EXCEPT !.log = Append(@, failed)])
    /\ UNCHANGED <<hasIndex, indexDim, createCalls, store, mgr, crash,
                   nextUuid, files, runs, result>>

\* The loop over items_by_hash is exhausted: upsert returns.
UpsertReturn ==
    /\ call.pc = "group"
    /\ call.gi > Len(call.groups)
    /\ call' = [call EXCEPT !.pc = "returned"]
    /\ UNCHANGED <<hasIndex, indexDim, createCalls, store, mgr, crash,
                   nextUuid, files, runs, result>>

\* The process dies inside upsert, between two store calls: its managers are
\* gone, the index keeps what the calls made so far left in it.
Crash ==
    /\ call.pc \in {"group", "batch"}
    /\ crash' = [items |-> call.items, log |-> call.log, pre |-> call.pre,
                 happened |-> TRUE]
    /\ call' = NoCall
    /\ mgr' = [m \in Managers |-> NoManager]
    /\ UNCHANGED <<hasIndex, indexDim, createCalls, store, nextUuid, files,
                   runs, result>>

\* The caller takes what upsert returned or raised.  A run_indexing invocation
\* whose upsert returned is complete: it is recorded with the ids it produced
\* and the ids the index then holds for its source.
Finish ==
    /\ call.pc \in {"returned", "raised"}
    /\ runs' = IF call.run # NoRun /\ call.pc = "returned"
               THEN Append(runs,
                      [source |-> call.run.source, hash |-> call.run.hash,
                       outcome |-> "upserted", items |-> call.items,
                       stored |-> StoredOf(store, call.run.source),
                       docs |-> call.run.docs, chunks |-> call.run.chunks,
                       stages |-> call.run.stages])
               ELSE runs
    /\ call' = NoCall
    /\ crash' = NoCrash
    /\ UNCHANGED <<hasIndex, indexDim, createCalls, store, mgr, nextUuid,
                   files, result>>

(***************************************************************************)
(* Calls of the manager's methods by a caller that builds its own items.   *)
(* The items carry fresh ids, as every item aembed_documents makes does.   *)
(***************************************************************************)
\* the source of the items of such a caller
ApiSource == "api"

\* vector lengths of the items; 0 is an item with an empty embedding
Dims == {0, 1, 2}

\* items that differ in their hash, one of them without a hash
HashShapes ==
    {[dim |-> ModelDim, md |-> [hash |-> h, source |-> ApiSource]] : h \in Hashes}
    \cup {[dim |-> ModelDim, md |-> [source |-> ApiSource]]}

\* items that differ in the length of their vector, one of them without a hash
DimShapes ==
    {[dim |-> d, md |-> [hash |-> "h1", source |-> ApiSource]] : d \in Dims}
    \cup {[dim |-> 1, md |-> [source |-> ApiSource]]}

ListsOf(shapes) == UNION {[1..n -> shapes] : n \in 0..MaxItems}

NewItems(shapes) ==
    [i \in DOMAIN shapes |->
        [id |-> Uuid4(nextUuid + i - 1), embedding |-> Vec(shapes[i].dim),
         metadata |-> shapes[i].md]]

Upsert(m, shapes, batch_size) ==
    /\ call.pc = "idle"
    /\ mgr[m].alive
    /\ nextUuid + Len(shapes) <= MaxUuid
    /\ nextUuid' = nextUuid + Len(shapes)
    /\ BeginUpsert(mgr, m, NewItems(shapes), batch_size, NoRun)
    /\ crash' = NoCrash
    /\ result' = NoResult
    /\ UNCHANGED <<store, files, runs>>

\* upsert is run again with the items of the call the process died in
Reupsert(m, batch_size) ==
    /\ call.pc = "idle"
    /\ mgr[m].alive
    /\ crash.happened
    /\ BeginUpsert(mgr, m, crash.items, batch_size, NoRun)
    /\ result' = NoResult
    /\ UNCHANGED <<store, crash, nextUuid, files, runs>>

\* delete_by_hash called by the caller: a manager without index raises
\* AttributeError (self.index is None)
ApiDeleteByHash(m, file_hash) ==
    /\ call.pc = "idle"
    /\ mgr[m].alive
    /\ IF mgr[m].index = None
       THEN /\ result' = [op |-> "delete_by_hash", raised |-> "AttributeError"]
            /\ store' = store
       ELSE /\ result' = NoResult
            /\ store' = DeleteByHash(store, file_hash)
    /\ UNCHANGED <<hasIndex, indexDim, createCalls, mgr, call, crash,
                   nextUuid, files, runs>>

\* query: [] without index, else the top_k nearest records; which records are
\* nearest is the store's choice
QueryMatchesOf(index, top_k) ==
    IF index = None
    THEN {{}}
    ELSE {ms \in SUBSET store :
            Cardinality(ms) = Min(top_k, Cardinality(store))}

QueryMatches(m, top_k) == QueryMatchesOf(mgr[m].index, top_k)

Query(m, top_k) ==
    /\ call.pc = "idle"
    /\ mgr[m].alive
    /\ \E ms \in QueryMatches(m, top_k) :
          result' = [op |-> "query", matches |-> Cardinality(ms)]
    /\ UNCHANGED <<hasIndex, indexDim, createCalls, store, mgr, call, crash,
                   nextUuid, files, runs>>

Init ==
    /\ hasIndex = FALSE
    /\ indexDim = 0
    /\ createCalls = 0
    /\ store = {}
    /\ mgr = [m \in Managers |-> NoManager]
    /\ call = NoCall
    /\ crash = NoCrash
    /\ nextUuid = 0
    /\ files = [f \in FileNames |-> "b1"]
    /\ runs = <<>>
    /\ result = NoResult

\* the calls a caller of the manager can make, its items taken from `lists`
ApiCalls(lists) ==
    \/ \E m \in Managers, c \in {None, "pc"}, n \in {"", "idx"} :
          Construct(m, c, n)
    \/ \E m \in Managers, shapes \in lists, b \in BatchSizes :
          Upsert(m, shapes, b)
    \/ \E m \in Managers, b \in BatchSizes : Reupsert(m, b)
    \/ \E m \in Managers, h \in Hashes : ApiDeleteByHash(m, h)
    \/ \E m \in Managers, k \in {1, TopK} : Query(m, k)

UpsertSteps ==
    \/ UpsertGroup
    \/ UpsertBatch
    \/ StoreRaises
    \/ UpsertReturn
    \/ Finish
    \/ Crash

Next == ApiCalls(ListsOf(HashShapes)) \/ UpsertSteps

Spec == Init /\ [][Next]_vars

NextDim == ApiCalls(ListsOf(DimShapes)) \/ UpsertSteps

SpecDim == Init /\ [][NextDim]_vars

(***************************************************************************)
(* The programs of main.py: run_indexing over one path and the retriever   *)
(* of run_query_mode.  Each runs in a process of its own and builds its    *)
(* own manager.                                                            *)
(***************************************************************************)
Supported == {".txt", ".md", ".pdf", ".docx", ".csv"}

\* a path that is no supported file
OtherPath == "notes.bin"

Paths == FileNames \cup {OtherPath}

\* the directory load is given and its one subdirectory
Root == "docs"
Sub == "docs/sub"
Dirs == {Root, Sub}

\* the optional parsing libraries of document_loader.py that are installed
AllLibs == {"pdfplumber", "docx", "pd"}

\* os.path.splitext(name)[1]
Suffix(name) ==
    CASE name \in {"a.txt", "b.txt", "g.txt"} -> ".txt"
      [] name = "B.MD" -> ".MD"
      [] name = "c.csv" -> ".csv"
      [] name = "d.pdf" -> ".pdf"
      [] name = "e.docx" -> ".docx"
      [] OTHER -> ".bin"

\* str.lower()
Lower(s) ==
    CASE s = ".MD" -> ".md"
      [] s = "EXIT" -> "exit"
      [] OTHER -> s

\* os.path.splitext(path)[1].lower()
Ext(path) == Lower(Suffix(path))

\* the text of a file, by its bytes
Text(b) ==
    CASE b = "b0" -> <<>>
      [] b = "b1" -> <<"k", "l">>
      [] b = "b2" -> <<"p", "q", "r">>

\* pdfplumber.open(path).pages and page.extract_text() or "": the empty file is
\* no PDF and pdfplumber raises; the second page of b1 is blank
PdfPages(b) ==
    CASE b = "b0" -> [ok |-> FALSE, pages |-> <<>>]
      [] b = "b1" -> [ok |-> TRUE, pages |-> << <<"k">>, <<" ">>, <<"l">> >>]
      [] b = "b2" -> [ok |-> TRUE, pages |-> << <<"p", "q", "r">> >>]

\* docx.Document(path).paragraphs: the empty file is no DOCX and docx raises
DocxParagraphs(b) ==
    CASE b = "b0" -> [ok |-> FALSE, paragraphs |-> <<>>]
      [] b = "b1" -> [ok |-> TRUE, paragraphs |-> << <<"k">>, <<" ">>, <<"l">> >>]
      [] b = "b2" -> [ok |-> TRUE, paragraphs |-> << <<"p", "q", "r">> >>]

\* pd.read_csv(path, dtype=str): the empty file has no columns and pandas
\* raises; a row is its cells in column order, None a cell without value
CsvRows(b) ==
    CASE b = "b0" -> [ok |-> FALSE, rows |-> <<>>]
      [] b = "b1" -> [ok |-> TRUE,
                      rows |-> << <<[col |-> "id", val |-> "1"],
                                    [col |-> "name", val |-> "k"]>>,
                                  <<[col |-> "id", val |-> "2"],
                                    [col |-> "name", val |-> None]>> >>]
      [] b = "b2" -> [ok |-> TRUE,
                      rows |-> << <<[col |-> "id", val |-> "3"],
                                    [col |-> "name", val |-> "p"]>> >>]

\* not txt.strip(): the text is empty or all whitespace
IsBlank(text) == \A i \in DOMAIN text : text[i] \in {" ", "\n"}

\* sep.join(texts)
RECURSIVE JoinWith(_, _)
JoinWith(texts, sep) ==
    IF texts = <<>> THEN <<>>
    ELSE IF Len(texts) = 1 THEN texts[1]
    ELSE texts[1] \o <<sep>> \o JoinWith(Tail(texts), sep)

\* what a loading step gives: the documents, or the exception it raises
Loaded(docs) == [raised |-> FALSE, docs |-> docs]

LoadRaised == [raised |-> TRUE, docs |-> <<>>]

\* _compute_file_hash: open(path, "rb") raises for a file that cannot be read
ComputeFileHash(f) ==
    IF f.readable
    THEN [raised |-> FALSE, value |-> Sha256(f.bytes)]
    ELSE [raised |-> TRUE, value |-> None]

\* meta_base of _load_file
MetaBaseOfNothing(source_id, file_hash) ==
    [source |-> source_id, hash |-> Sha256("b0")]

MetaBase(source_id, file_hash) == [source |-> source_id, hash |-> file_hash]

\* _load_text
LoadText(f, metadata) == [page_content |-> Text(f.bytes), metadata |-> metadata]

\* _load_pdf: one Document per page with text, page numbers from 1; none when
\* pdfplumber is not installed
LoadPdf(f, meta_base, libs) ==
    IF "pdfplumber" \in libs
    THEN LET pdf == PdfPages(f.bytes)
             all == [i \in DOMAIN pdf.pages |->
                        [page_content |-> pdf.pages[i],
                         metadata |-> [page |-> i] @@ meta_base]]
         IN  IF pdf.ok
             THEN Loaded(SelectSeq(all, LAMBDA d : ~IsBlank(d.page_content)))
             ELSE LoadRaised
    ELSE Loaded(<<>>)

\* _load_docx: one Document of the paragraphs with text joined by "\n"; an
\* empty one when python-docx is not installed
LoadDocx(f, metadata, libs) ==
    IF "docx" \in libs
    THEN LET d == DocxParagraphs(f.bytes)
             paragraphs == SelectSeq(d.paragraphs, LAMBDA p : ~IsBlank(p))
         IN  IF d.ok
             THEN Loaded(<<[page_content |-> JoinWith(paragraphs, "\n"),
                            metadata |-> metadata]>>)
             ELSE LoadRaised
    ELSE Loaded(<<[page_content |-> <<>>, metadata |-> metadata]>>)

\* the content of one row: "col: value" of the cells with a value, joined
RowContent(row) ==
    LET cells == SelectSeq(row, LAMBDA c : c.val # None)
    IN  JoinWith([i \in DOMAIN cells |-> <<cells[i].col, ": ", cells[i].val>>],
                 " \n")

\* _load_csv: one Document per row, rows numbered from 0; the file as raw text
\* when pandas raises or is not installed
LoadCsv(f, meta_base, libs) ==
    IF "pd" \in libs
    THEN LET csv == CsvRows(f.bytes)
         IN  IF csv.ok
             THEN Loaded([i \in DOMAIN csv.rows |->
                            [page_content |-> RowContent(csv.rows[i]),
                             metadata |-> [row |-> i - 1] @@ meta_base]])
             ELSE Loaded(<<LoadText(f, meta_base)>>)
    ELSE Loaded(<<LoadText(f, meta_base)>>)

\* _load_file: the hash of the file's bytes first, then the loader of the
\* file's type.  f is the file: its directory, name, bytes and whether it can
\* be opened.
LoadFile(f, libs) ==
    LET ext == Ext(f.name)
        file_hash == ComputeFileHash(f)
        meta_base == MetaBase(f.name, file_hash.value)
    IN  IF file_hash.raised THEN LoadRaised
        ELSE IF ext \in {".txt", ".md"} THEN Loaded(<<LoadText(f, meta_base)>>)
        ELSE IF ext = ".pdf" THEN LoadPdf(f, meta_base, libs)
        ELSE IF ext = ".docx" THEN LoadDocx(f, meta_base, libs)
        ELSE IF ext = ".csv" THEN LoadCsv(f, meta_base, libs)
        ELSE Loaded(<<>>)

\* the loop of load over the files of the directories it visits, in the order
\* of the walk: an exception of _load_file ends the loop and load
RECURSIVE LoadFiles(_, _)
LoadFiles(fs, libs) ==
    IF fs = <<>> THEN [raised |-> FALSE, docs |-> <<>>, file_count |-> 0]
    ELSE IF Ext(Head(fs).name) \notin Supported THEN LoadFiles(Tail(fs), libs)
    ELSE LET one == LoadFile(Head(fs), libs)
             rest == LoadFiles(Tail(fs), libs)
         IN  IF one.raised \/ rest.raised
             THEN [raised |-> TRUE, docs |-> <<>>, file_count |-> 0]
             ELSE [raised |-> FALSE, docs |-> one.docs \o rest.docs,
                   file_count |-> 1 + rest.file_count]

\* os.walk(path): the directory itself, then its subdirectories
Walk(path) == IF path = Root THEN <<Root, Sub>> ELSE <<path>>

\* the directories the loop of load visits: it breaks after the first one
\* unless recursive
VisitedWholeWalk(path, recursive) == Walk(path)

Visited(path, recursive) == IF recursive THEN Walk(path) ELSE <<Head(Walk(path))>>

\* the files of directory d, in the order the walk lists them
Listing(fs, d) == SelectSeq(fs, LAMBDA f : f.dir = d)

RECURSIVE FilesOf(_, _)
FilesOf(fs, dirs) ==
    IF dirs = <<>> THEN <<>>
    ELSE Listing(fs, Head(dirs)) \o FilesOf(fs, Tail(dirs))

\* load, for the path of a directory; fs are the files of the file system
LoadDirectory(fs, path, recursive, libs) ==
    LoadFiles(FilesOf(fs, Visited(path, recursive)), libs)

\* load, for a path that is no directory: the file f
LoadPath(f, libs) ==
    IF Ext(f.name) \in Supported
    THEN LET one == LoadFile(f, libs)
         IN  [raised |-> one.raised, docs |-> one.docs,
              file_count |-> IF one.raised THEN 0 ELSE 1]
    ELSE [raised |-> FALSE, docs |-> <<>>, file_count |-> 0]

\* the file run_indexing is given: path names a file of the disk, or one with
\* an unsupported extension
DiskFile(path) ==
    [dir |-> Root, name |-> path, readable |-> TRUE,
     bytes |-> IF path \in FileNames THEN files[path] ELSE "b1"]

\* load, for the path of a file of the disk
Load(path) == LoadPath(DiskFile(path), AllLibs)

\* the chunks of one text from offset start on: windows of ChunkSize characters,
\* each starting ChunkSize - ChunkOverlap after the one before
RECURSIVE ChunksFrom(_, _, _)
ChunksFrom(text, md, start) ==
    IF text = <<>> THEN <<>>
    ELSE LET end == Min(start + ChunkSize, Len(text))
             chunk == [page_content |-> SubSeq(text, start + 1, end),
                       metadata |-> md @@ [start_index |-> start]]
         IN  IF end = Len(text)
             THEN <<chunk>>
             ELSE <<chunk>> \o ChunksFrom(text, md, start + ChunkSize - ChunkOverlap)

\* split_documents (add_start_index = True)
RECURSIVE SplitDocuments(_)
SplitDocuments(docs) ==
    IF docs = <<>> THEN <<>>
    ELSE ChunksFrom(Head(docs).page_content, Head(docs).metadata, 0)
         \o SplitDocuments(Tail(docs))

\* the vector the embedding model returns for a text: a function of the text
EmbedText(text) == [i \in 1..ModelDim |-> text]

\* self.embedder.aembed_documents(texts): one vector per text, in order
EmbedderAembedDocuments(texts) == [i \in DOMAIN texts |-> EmbedText(texts[i])]

\* docs_with_content: the documents whose page_content is not empty
DocsWithContentAll(docs) == docs

DocsWithContent(docs) == SelectSeq(docs, LAMBDA d : d.page_content # <<>>)

\* texts
TextsOf(docs) == [i \in DOMAIN docs |-> docs[i].page_content]

\* aembed_documents: the documents with content, each with a uuid4 id, the
\* vector of its text and its metadata; n uuid4 values were drawn before
AembedDocuments(docs, n) ==
    LET docs_with_content == DocsWithContent(docs)
        vectors == IF docs_with_content = <<>> THEN <<>>
                   ELSE EmbedderAembedDocuments(TextsOf(docs_with_content))
    IN  [i \in 1..Min(Len(docs_with_content), Len(vectors)) |->
            [id |-> Uuid4(n + i - 1), embedding |-> vectors[i],
             metadata |-> docs_with_content[i].metadata]]

\* the calls aembed_documents makes to the embedding model: none when no
\* document has content, else one with all texts
EmbedderCalls(docs) ==
    IF DocsWithContent(docs) = <<>> THEN <<>>
    ELSE <<TextsOf(DocsWithContent(docs))>>

\* the managers of a process that has just built its manager
ProcessManagers == [m \in Managers |-> IF m = "m1" THEN NewManager ELSE NoManager]

\* `if not docs: return` and `if not chunks: return`
ExitsEarlyNever(xs) == FALSE

ExitsEarly(xs) == xs = <<>>

\* run_indexing(path) up to the first store call of upsert.  The run is
\* recorded with the stages it went through and the numbers of documents and
\* chunks it had.
RunIndexing(path) ==
    /\ call.pc = "idle"
    /\ Len(runs) < MaxRuns
    /\ LET docs == Load(path).docs
           chunks == SplitDocuments(docs)
           items == AembedDocuments(chunks, nextUuid)
           early(why, stages) ==
               [source |-> path, hash |-> None, outcome |-> why,
                items |-> <<>>, stored |-> StoredOf(store, path),
                docs |-> Len(docs), chunks |-> Len(chunks), stages |-> stages]
       IN  IF ExitsEarly(docs)
           THEN /\ runs' = Append(runs, early("no_docs", <<"load">>))
                /\ mgr' = ProcessManagers
                /\ UNCHANGED <<hasIndex, indexDim, createCalls, call, nextUuid>>
           ELSE IF ExitsEarly(chunks)
           THEN /\ runs' = Append(runs, early("no_chunks", <<"load", "split">>))
                /\ mgr' = ProcessManagers
                /\ UNCHANGED <<hasIndex, indexDim, createCalls, call, nextUuid>>
           ELSE /\ nextUuid + Len(items) <= MaxUuid
                /\ nextUuid' = nextUuid + Len(items)
                /\ BeginUpsert(ProcessManagers, "m1", items, BatchSizeDefault,
                               [source |-> path, hash |-> Sha256(DiskFile(path).bytes),
                                docs |-> Len(docs), chunks |-> Len(chunks),
                                stages |-> <<"load", "split", "embed", "upsert">>])
                /\ runs' = runs
    /\ crash' = NoCrash
    /\ result' = NoResult
    /\ UNCHANGED <<store, files>>

\* the file is rewritten between two runs
ModifyFile(f, b) ==
    /\ call.pc = "idle"
    /\ files[f] # b
    /\ files' = [files EXCEPT ![f] = b]
    /\ UNCHANGED <<hasIndex, indexDim, createCalls, store, mgr, call, crash,
                   nextUuid, runs, result>>

\* the methods class EmbeddingsIndexer defines
IndexerMethods == {"__init__", "aembed_documents", "upsert_to_pinecone"}

\* the order of the source names as Python compares strings
SourceOrder == <<"", "a.txt", "api", "b.txt", "notes.bin">>

SourceRank(source) == CHOOSE i \in DOMAIN SourceOrder : SourceOrder[i] = source

\* dict.get(key, default)
Get(md, key, default) == IF key \in DOMAIN md THEN md[key] ELSE default

\* the sort key of the retriever
SortKey(m) ==
    <<SourceRank(Get(m.metadata, "source", "")), Get(m.metadata, "page", 0),
      Get(m.metadata, "row", 0), Get(m.metadata, "start_index", 0)>>

\* tuple comparison
KeyLess(a, b) ==
    \E i \in 1..4 : a[i] < b[i] /\ \A j \in 1..(i - 1) : a[j] = b[j]

\* sorted(matches, key=...): a stable sort
RECURSIVE SortedMatches(_)
SortedMatches(matches) ==
    IF matches = <<>> THEN <<>>
    ELSE LET front == SortedMatches(SubSeq(matches, 1, Len(matches) - 1))
             last == matches[Len(matches)]
             keep == {i \in DOMAIN front : ~KeyLess(SortKey(last), SortKey(front[i]))}
             k == Cardinality(keep)
         IN  SubSeq(front, 1, k) \o <<last>> \o SubSeq(front, k + 1, Len(front))

Separator == "\n---\n"

\* "\n---\n".join(texts)
RECURSIVE Join(_)
Join(texts) ==
    IF texts = <<>> THEN <<>>
    ELSE IF Len(texts) = 1 THEN texts[1]
    ELSE texts[1] \o <<Separator>> \o Join(Tail(texts))

\* the orders in which the store may rank a set of matches
Rankings(ms) ==
    {r \in [1..Cardinality(ms) -> ms] : \A i, j \in DOMAIN r : r[i] = r[j] => i = j}

\* retriever(query) of run_query_mode, in a process that built its manager and
\* its EmbeddingsIndexer: the query is embedded with indexer.aembed_query, the
\* matches are sorted and their metadata's page_content joined
Retriever(query) ==
    /\ call.pc = "idle"
    /\ mgr' = ProcessManagers
    /\ IF "aembed_query" \notin IndexerMethods
       THEN result' = [op |-> "retriever", raised |-> "AttributeError",
                       matches |-> <<>>, context |-> <<>>]
       ELSE \E ms \in QueryMatches("m1", TopK) : \E ranked \in Rankings(ms) :
              IF \E i \in DOMAIN ranked : "page_content" \notin DOMAIN ranked[i].metadata
              THEN result' = [op |-> "retriever", raised |-> "KeyError",
                              matches |-> ranked, context |-> <<>>]
              ELSE result' = [op |-> "retriever", raised |-> None,
                              matches |-> ranked,
                              context |->
                                Join([i \in DOMAIN ranked |->
                                        SortedMatches(ranked)[i].metadata.page_content])]
    /\ UNCHANGED <<hasIndex, indexDim, createCalls, store, call, crash,
                   nextUuid, files, runs>>

Queries == {"q1", "q2"}

NextApp ==
    \/ \E path \in Paths : RunIndexing(path)
    \/ \E f \in FileNames, b \in Bytes : ModifyFile(f, b)
    \/ \E q \in Queries : Retriever(q)
    \/ UpsertSteps

SpecApp == Init /\ [][NextApp]_vars

(***************************************************************************)
(* EmbeddingsIndexer.aembed_documents on a list of chunks.                 *)
(***************************************************************************)
\* the chunks a caller passes: with and without text
ChunkShapes ==
    {[page_content |-> t,
      metadata |-> [source |-> "a.txt", hash |-> "h1", start_index |-> i]] :
        t \in {<<>>, <<" ">>, <<"k">>, <<"l">>}, i \in {0, 1}}

ChunkLists == UNION {[1..n -> ChunkShapes] : n \in 0..MaxItems}

\* indexer.aembed_documents(docs)
Aembed(docs) ==
    /\ call.pc = "idle"
    /\ nextUuid + Len(DocsWithContent(docs)) <= MaxUuid
    /\ nextUuid' = nextUuid + Len(AembedDocuments(docs, nextUuid))
    /\ result' = [op |-> "aembed_documents", docs |-> docs,
                  calls |-> EmbedderCalls(docs),
                  items |-> AembedDocuments(docs, nextUuid)]
    /\ UNCHANGED <<hasIndex, indexDim, createCalls, store, mgr, call, crash,
                   files, runs>>

NextEmbed == \E docs \in ChunkLists : Aembed(docs)

SpecEmbed == Init /\ [][NextEmbed]_vars

(***************************************************************************)
(* The interactive loop of run_query_mode.  result holds the session: where *)
(* the loop is and what was asked and printed so far.                      *)
(***************************************************************************)
\* what the user types at the prompt
Questions == {"exit", "EXIT", "", " ", "q1"}

\* question.strip()
Strip(question) == IF question = " " THEN "" ELSE question

\* the call of the chain that fails for a reason outside the program
Faults == {None, "embed", "query", "generate"}

\* the exceptions the loop's try statement catches
Caught == {"KeyboardInterrupt", "EOFError"}

\* rag_chain.ainvoke(question): the retriever embeds the question and queries
\* the store, then the model generates; the exception raised, or None
ChainRaises(index, fault) ==
    IF "aembed_query" \notin IndexerMethods THEN "AttributeError"
    ELSE IF fault = "embed" THEN "EmbeddingError"
    ELSE IF fault = "query" THEN "StoreError"
    ELSE IF \E ms \in QueryMatchesOf(index, TopK) : \E r \in ms :
                "page_content" \notin DOMAIN r.metadata
         THEN "KeyError"
    ELSE IF fault = "generate" THEN "GenerationError"
    ELSE None

\* the loop is at its prompt
InLoop == result.op = "query_mode" /\ result.loop = "prompt"

\* run_query_mode up to the loop: the process builds its manager
EnterQueryMode ==
    /\ call.pc = "idle"
    /\ ~InLoop
    /\ mgr' = ProcessManagers
    /\ result' = [op |-> "query_mode", loop |-> "prompt", asked |-> <<>>]
    /\ UNCHANGED <<hasIndex, indexDim, createCalls, store, call, crash,
                   nextUuid, files, runs>>

\* what an exception raised inside the try statement does to the loop: break
\* when it is caught, else it leaves run_query_mode
AfterException(e) == IF e \in Caught THEN "exited" ELSE "raised"

\* one iteration of the loop with the question the user typed
Ask(question, fault) ==
    /\ InLoop
    /\ Len(result.asked) < MaxAsk
    /\ LET e == ChainRaises(mgr["m1"].index, fault)
           said(out) == Append(result.asked,
                               [input |-> question, fault |-> fault, out |-> out])
       IN  IF Lower(question) = "exit"
           THEN result' = [result EXCEPT !.loop = "exited",
                                         !.asked = said(None)]
           ELSE IF Strip(question) = ""
           THEN result' = [result EXCEPT !.asked = said(None)]
           ELSE IF e # None
           THEN result' = [result EXCEPT !.loop = AfterException(e),
                                         !.asked = said(e)]
           ELSE result' = [result EXCEPT !.asked = said("Answer")]
    /\ UNCHANGED <<hasIndex, indexDim, createCalls, store, mgr, call, crash,
                   nextUuid, files, runs>>

\* input() raises EOFError (end of input) or KeyboardInterrupt
InputRaises(e) ==
    /\ InLoop
    /\ result' = [result EXCEPT
                    !.loop = AfterException(e),
                    !.asked = Append(@, [input |-> e, fault |-> None,
                                         out |-> None])]
    /\ UNCHANGED <<hasIndex, indexDim, createCalls, store, mgr, call, crash,
                   nextUuid, files, runs>>

NextQuery ==
    \/ EnterQueryMode
    \/ \E question \in Questions, fault \in Faults : Ask(question, fault)
    \/ \E e \in Caught : InputRaises(e)

SpecQuery == Init /\ [][NextQuery]_vars

(***************************************************************************)
(* DocumentLoader.load on a file system: the files of directory Root and   *)
(* of its subdirectory Sub, in the order os.walk lists them.               *)
(***************************************************************************)
\* the files a directory can hold: name, bytes, whether it can be opened
FileShapes ==
    {[name |-> "a.txt", bytes |-> "b1", readable |-> TRUE],
     [name |-> "B.MD", bytes |-> "b2", readable |-> TRUE],
     [name |-> "c.csv", bytes |-> "b1", readable |-> TRUE],
     [name |-> "c.csv", bytes |-> "b0", readable |-> TRUE],
     [name |-> "d.pdf", bytes |-> "b1", readable |-> TRUE],
     [name |-> "d.pdf", bytes |-> "b0", readable |-> TRUE],
     [name |-> "d.pdf", bytes |-> "b1", readable |-> FALSE],
     [name |-> "e.docx", bytes |-> "b1", readable |-> TRUE],
     [name |-> "f.bin", bytes |-> "b1", readable |-> FALSE],
     [name |-> "g.txt", bytes |-> "b2", readable |-> FALSE]}

FileEntries ==
    {[dir |-> d, name |-> f.name, bytes |-> f.bytes, readable |-> f.readable] :
        d \in Dirs, f \in FileShapes}

\* the file systems: no two files of a directory share their name
FileSystems ==
    {fs \in UNION {[1..n -> FileEntries] : n \in 0..MaxFiles} :
        \A i, j \in DOMAIN fs :
            (fs[i].dir = fs[j].dir /\ fs[i].name = fs[j].name) => i = j}

LibSets == {AllLibs, {}}

\* loader.load(path, recursive) for a directory, in a process that has made no
\* other call
LoadDir(fs, path, recursive, libs) ==
    /\ call.pc = "idle"
    /\ result = NoResult
    /\ LET r == LoadDirectory(fs, path, recursive, libs)
       IN  result' = [op |-> "load", fs |-> fs, path |-> path,
                      recursive |-> recursive, libs |-> libs,
                      raised |-> r.raised, docs |-> r.docs,
                      file_count |-> r.file_count]
    /\ UNCHANGED <<hasIndex, indexDim, createCalls, store, mgr, call, crash,
                   nextUuid, files, runs>>

\* loader.load(path, recursive) for the path of file f
LoadOneFile(f, recursive, libs) ==
    /\ call.pc = "idle"
    /\ result = NoResult
    /\ LET r == LoadPath(f, libs)
       IN  result' = [op |-> "load", fs |-> <<f>>, path |-> f.name,
                      recursive |-> recursive, libs |-> libs,
                      raised |-> r.raised, docs |-> r.docs,
                      file_count |-> r.file_count]
    /\ UNCHANGED <<hasIndex, indexDim, createCalls, store, mgr, call, crash,
                   nextUuid, files, runs>>

\* one call of load, on any file system
NextLoad ==
    /\ result = NoResult
    /\ \/ \E fs \in FileSystems, path \in Dirs, recursive \in BOOLEAN,
             libs \in LibSets : LoadDir(fs, path, recursive, libs)
       \/ \E f \in FileEntries, recursive \in BOOLEAN, libs \in LibSets :
             LoadOneFile(f, recursive, libs)

SpecLoad == Init /\ [][NextLoad]_vars

(***************************************************************************)
(* Properties                                                              *)
(***************************************************************************)
InCall == call.pc # "idle"

IsDelete(e, h) == e.op = "delete" /\ e.hash = h

IsInsert(e, h) == e.op = "upsert" /\ e.hash = h

\* the records upsert sends for a list of items
RecordsOf(items) == Range(ToUpsert(items))

DeleteSkippedOnlyByCreatingCall ==
    (InCall /\ ~call.created) =>
        \A j \in DOMAIN call.log :
            call.log[j].op = "upsert" =>
                \E i \in 1..(j - 1) : IsDelete(call.log[i], call.log[j].hash)

\* C5: when upsert has returned, the stored records of every hash of the call
\* are exactly the call's records of that hash and the records of other hashes
\* are as they were; a call that created the index for items of one hash made
\* no delete and left exactly its records.
CallHashes == {call.groups[g].hash : g \in DOMAIN call.groups}

OtherRecords(s) == {r \in s : ~(HasHash(r.metadata) /\ r.metadata.hash \in CallHashes)}

UpsertReplacesExactly ==
    call.pc = "returned" =>
      /\ \A g \in DOMAIN call.groups :
            StoredWith(store, call.groups[g].hash) = RecordsOf(call.groups[g].items)
      /\ OtherRecords(store) = OtherRecords(call.pre)
      /\ (call.created /\ Len(call.groups) = 1
                       /\ call.groups[1].items = call.items) =>
            /\ createCalls = 1
            /\ \A j \in DOMAIN call.log : call.log[j].op # "delete"
            /\ store = RecordsOf(call.items)

\* C6: the index is created at most once, only by the start of an upsert call
\* with items made while no index exists, with the vector length of the call's
\* first item as its dimension; an index that exists stays as created, and a
\* manager that holds the index keeps holding it.
IndexCreatedOnce ==
    /\ [](/\ createCalls <= 1
          /\ hasIndex <=> createCalls = 1
          /\ hasIndex <=> indexDim > 0
          /\ \A m \in Managers : mgr[m].index # None => hasIndex)
    /\ [][createCalls' # createCalls =>
            /\ ~hasIndex /\ hasIndex'
            /\ call.pc = "idle" /\ call'.pc = "group"
            /\ call'.created
            /\ call'.items # <<>>
            /\ indexDim' = Len(call'.items[1].embedding)
            /\ mgr[call'.mgr].index = None
            /\ mgr'[call'.mgr].index = Handle]_vars
    /\ [][hasIndex =>
            /\ hasIndex' /\ indexDim' = indexDim /\ createCalls' = createCalls
            /\ \A m \in Managers :
                  (mgr[m].index # None /\ mgr'[m].alive) => mgr'[m].index # None]_vars

\* a manager built before the index existed has upserted, after another manager
\* created the index, items whose first vector has another length
IndexCreatedOnceWitness ==
    /\ call.pc \in {"returned", "raised"}
    /\ call.log # <<>>
    /\ ~call.created
    /\ ~mgr[call.mgr].index_was_created
    /\ \E m \in Managers : mgr[m].index_was_created
    /\ indexDim = 1
    /\ Len(call.items[1].embedding) = 2

\* C7: an upsert with a record whose vector length differs from the dimension
\* of the index is rejected by the manager: it raises without a store call, and
\* no insert a manager sends carries a vector of another length.
MismatchRejectedByManager ==
    InCall =>
      /\ \A j \in DOMAIN call.log :
            call.log[j].op = "upsert" =>
                \A i \in DOMAIN call.log[j].vectors :
                    Len(call.log[j].vectors[i].values) = indexDim
      /\ (hasIndex /\ \E i \in DOMAIN call.items :
                          Len(call.items[i].embedding) # indexDim) =>
            (call.pc = "raised" /\ call.log = <<>>)

\* C9: between the delete of a hash and the last insert of its group the index
\* holds, for that hash, none of the old records and only the new records
\* inserted so far; when upsert is run again with the items of a call the
\* process died in and returns, the index holds exactly the call's records for
\* each of its hashes.
InsertedSoFar == SubSeq(call.groups[call.gi].items, 1, call.bi)

RerunReturned == call.pc = "returned" /\ crash.happened /\ call.items = crash.items

CrashRecovery ==
    /\ (call.pc = "batch" /\ ~mgr[call.mgr].index_was_created) =>
          /\ StoredWith(store, call.groups[call.gi].hash) = RecordsOf(InsertedSoFar)
          /\ call.bi < Len(call.groups[call.gi].items)
    /\ RerunReturned =>
          \A g \in DOMAIN call.groups :
              StoredWith(store, call.groups[g].hash) = RecordsOf(call.groups[g].items)

\* the process died after the delete of a hash that had old records and after
\* the first of two inserts; the rerun has returned
CrashRecoveryWitness ==
    /\ RerunReturned
    /\ Len(crash.log) = 2
    /\ crash.log[1].op = "delete"
    /\ StoredWith(crash.pre, crash.log[1].hash) # {}
    /\ IsInsert(crash.log[2], crash.log[1].hash)
    /\ Len(call.groups) = 1
    /\ Len(call.groups[1].items) = 2
    /\ Cardinality(StoredWith(call.pre, crash.log[1].hash)) = 1

ItemIds(items) == {items[i].id : i \in DOMAIN items}

Upserted(i) == runs[i].outcome = "upserted"

\* runs i and j are successive complete runs over the same source
SuccessiveRuns(i, j) ==
    /\ i < j
    /\ Upserted(i) /\ Upserted(j)
    /\ runs[i].source = runs[j].source
    /\ \A k \in (i + 1)..(j - 1) : runs[k].source # runs[i].source

\* C1: two complete indexing runs over a file whose bytes did not change
\* produce the same set of record ids, and the index holds as many records of
\* the file after the second run as after the first.
ReindexUnchangedIdempotent ==
    \A i, j \in DOMAIN runs :
        (SuccessiveRuns(i, j) /\ runs[i].hash = runs[j].hash) =>
            /\ ItemIds(runs[i].items) = ItemIds(runs[j].items)
            /\ Cardinality(runs[j].stored) = Cardinality(runs[i].stored)

\* C2: after a file was indexed, changed and indexed again, the ids of the two
\* runs are disjoint and the index holds, for the file, only the records of the
\* second run: none with the old hash.
ReindexChangedLeavesNoStale ==
    \A i, j \in DOMAIN runs :
        (SuccessiveRuns(i, j) /\ runs[i].hash # runs[j].hash) =>
            /\ ItemIds(runs[i].items) \cap ItemIds(runs[j].items) = {}
            /\ {r.id : r \in runs[j].stored} = ItemIds(runs[j].items)
            /\ \A r \in runs[j].stored : r.metadata.hash # runs[i].hash

\* contentHash + "-" + startOffset + "-" + page(or 0) + "-" + row(or 0)
ChunkTuple(md) ==
    <<md.hash, Get(md, "start_index", 0), Get(md, "page", 0), Get(md, "row", 0)>>

CompositeId(md) ==
    LET t == ChunkTuple(md) IN <<t[1], "-", t[2], "-", t[3], "-", t[4]>>

\* the items aembed_documents has made: those of the recorded runs and those of
\* the run in progress
EmbeddedItems ==
    UNION {Range(runs[i].items) : i \in DOMAIN runs}
    \cup (IF InCall /\ call.run # NoRun THEN Range(call.items) ELSE {})

\* C8: the id of every record the embedder makes is the composite key of its
\* chunk: equal tuples give equal ids and different tuples different ids.
IdIsCompositeKey ==
    /\ \A a \in EmbeddedItems : a.id = CompositeId(a.metadata)
    /\ \A a, b \in EmbeddedItems :
          (ChunkTuple(a.metadata) = ChunkTuple(b.metadata)) <=> (a.id = b.id)

\* matches in ascending order of their sort key
Ascending(ms) ==
    \A i, j \in DOMAIN ms : i < j => ~KeyLess(SortKey(ms[j]), SortKey(ms[i]))

\* C10: for every query the retriever returns the context: the stored chunk
\* texts of all matches the store returns, joined by the separator in ascending
\* order of (source, page, row, start_index).
RetrieverContextSorted ==
    result.op = "retriever" =>
      /\ result.raised = None
      /\ Len(result.matches) = Min(TopK, Cardinality(store))
      /\ \E r \in Rankings(Range(result.matches)) :
            /\ Ascending(r)
            /\ result.context = Join([i \in DOMAIN r |-> r[i].metadata.page_content])

(***************************************************************************)
(* The loader                                                              *)
(***************************************************************************)
IsDirLoad == result.op = "load" /\ result.path \in Dirs

\* the supported files load is to process, in the order of the walk
SupportedFiles(fs, path, recursive) ==
    SelectSeq(FilesOf(fs, IF recursive THEN Walk(path) ELSE <<path>>),
              LAMBDA f : Ext(f.name) \in Supported)

\* the documents of the files of a list that can be loaded
RECURSIVE DocsOfLoadable(_, _)
DocsOfLoadable(fs, libs) ==
    IF fs = <<>> THEN <<>>
    ELSE (IF LoadFile(Head(fs), libs).raised THEN <<>>
          ELSE LoadFile(Head(fs), libs).docs)
         \o DocsOfLoadable(Tail(fs), libs)

\* the directories of the subtree of a directory
Subtree(path) == IF path = Root THEN Dirs ELSE {path}

\* the files of the file system load(path, recursive) is to process
InScope(fs, path, recursive) ==
    {i \in DOMAIN fs :
        /\ Ext(fs[i].name) \in Supported
        /\ IF recursive THEN fs[i].dir \in Subtree(path) ELSE fs[i].dir = path}

\* the number of documents the files fs[i], i in S, load to
RECURSIVE DocCount(_, _, _)
DocCount(fs, S, libs) ==
    IF S = {} THEN 0
    ELSE LET i == CHOOSE j \in S : TRUE
         IN  Len(LoadFile(fs[i], libs).docs) + DocCount(fs, S \ {i}, libs)

UnitsCarryFileHash ==
    result.op = "load" =>
      /\ \A k \in DOMAIN result.docs :
            LET md == result.docs[k].metadata
            IN  /\ HasHash(md)
                /\ \E i \in DOMAIN result.fs :
                      /\ result.fs[i].name = md.source
                      /\ md.hash = Sha256(result.fs[i].bytes)
      /\ \A k, l \in DOMAIN result.docs :
            (/\ result.docs[k].metadata.source = result.docs[l].metadata.source
             /\ Cardinality({i \in DOMAIN result.fs :
                                result.fs[i].name = result.docs[k].metadata.source}) = 1)
            => result.docs[k].metadata.hash = result.docs[l].metadata.hash
      /\ (result.path \notin Dirs /\ Ext(result.fs[1].name) \in Supported
                                  /\ ~result.fs[1].readable) => result.raised

\* the two rows of a CSV file were loaded
UnitsCarryFileHashWitness ==
    /\ result.op = "load" /\ ~result.raised
    /\ result.path \notin Dirs
    /\ Len(result.docs) = 2
    /\ "row" \in DOMAIN result.docs[2].metadata
    /\ result.docs[1].metadata.hash = result.docs[2].metadata.hash

\* C11: load of a directory never raises: a file that cannot be read or parsed
\* is left out and the documents of every other supported file are returned.
UnreadableFileSkipped ==
    IsDirLoad =>
      /\ ~result.raised
      /\ result.docs =
            DocsOfLoadable(SupportedFiles(result.fs, result.path, result.recursive),
                           result.libs)

(***************************************************************************)
(* The query loop                                                          *)
(***************************************************************************)
\* C12: a question whose embedding, store query or generation fails is
\* answered by an error message and the loop prompts again; the loop is left
\* only by the exit command, the end of the input or an interrupt.
QueryErrorsReportedInline ==
    result.op = "query_mode" =>
      /\ result.loop \in {"prompt", "exited"}
      /\ result.loop = "exited" =>
            \/ Lower(result.asked[Len(result.asked)].input) = "exit"
            \/ result.asked[Len(result.asked)].input \in Caught
      /\ \A i \in DOMAIN result.asked :
            (result.asked[i].fault # None /\ result.asked[i].out # None) =>
                i < Len(result.asked) \/ result.loop = "prompt"

(***************************************************************************)
(* Store failures inside upsert                                            *)
(***************************************************************************)
\* C13: a store call that raises inside upsert is the last store call of that
\* upsert invocation: the call is not made again, the invocation ends raised
\* and its caller takes the exception with the index left as the failed call
\* found it.
StoreFailurePropagates ==
    /\ [](InCall =>
            \A i \in DOMAIN call.log :
                call.log[i].raised => (i = Len(call.log) /\ call.pc = "raised"))
    /\ [][call.pc = "raised" =>
            /\ call'.pc = "idle"
            /\ store' = store
            /\ mgr' = mgr]_vars

\* the insert of a group raised after the delete had removed the old records
\* of the hash
StoreFailurePropagatesWitness ==
    /\ call.pc = "raised"
    /\ Len(call.log) = 2
    /\ call.log[1].op = "delete" /\ ~call.log[1].raised
    /\ call.log[2].op = "upsert" /\ call.log[2].raised
    /\ StoredWith(call.pre, call.log[1].hash) # {}
    /\ StoredWith(store, call.log[1].hash) = {}

(***************************************************************************)
(* The embedder                                                            *)
(***************************************************************************)
\* the chunks of a list that have text, in the order of the list
RECURSIVE Surviving(_)
Surviving(docs) ==
    IF docs = <<>> THEN <<>>
    ELSE (IF Len(Head(docs).page_content) > 0 THEN <<Head(docs)>> ELSE <<>>)
         \o Surviving(Tail(docs))

\* C15: aembed_documents calls the embedding model once, with the texts of the
\* chunks that have text in input order, and returns one record per such chunk
\* in that order, with vector i of the model's result and the chunk's
\* metadata; with no such chunk it makes no call and returns the empty list.
EmbedderOutputShape ==
    result.op = "aembed_documents" =>
        LET surviving == Surviving(result.docs)
        IN  /\ Len(result.items) = Len(surviving)
            /\ IF surviving = <<>>
               THEN result.calls = <<>>
               ELSE /\ Len(result.calls) = 1
                    /\ result.calls[1] =
                          [i \in DOMAIN surviving |-> surviving[i].page_content]
                    /\ \A i \in DOMAIN surviving :
                          /\ result.items[i].embedding =
                                EmbedderAembedDocuments(result.calls[1])[i]
                          /\ result.items[i].metadata = surviving[i].metadata

\* a chunk without text before a chunk with text: one record came back
EmbedderOutputShapeWitness ==
    /\ result.op = "aembed_documents"
    /\ Len(result.docs) = 2
    /\ result.docs[1].page_content = <<>>
    /\ result.docs[2].page_content # <<>>
    /\ Len(result.items) = 1
    /\ Len(result.calls) = 1

(***************************************************************************)
(* The stages of an indexing run                                           *)
(***************************************************************************)
Stages == <<"load", "split", "embed", "upsert">>

\* the runs recorded and the run whose upsert is in progress
RunRecords ==
    Range(runs) \cup (IF InCall /\ call.run # NoRun THEN {call.run} ELSE {})

\* C17: the stages of every run are a prefix of load, split, embed, upsert; a
\* run that loaded no documents stops after load and one that got no chunks
\* after split, and the step of such a run draws no id, starts no upsert call
\* and leaves the index as it was.
EmptyRunStopsEarly ==
    /\ [](\A r \in RunRecords :
            /\ \E n \in 1..Len(Stages) : r.stages = SubSeq(Stages, 1, n)
            /\ r.docs = 0 => r.stages = <<"load">>
            /\ (r.docs > 0 /\ r.chunks = 0) => r.stages = <<"load", "split">>
            /\ (r.docs > 0 /\ r.chunks > 0) => r.stages = Stages)
    /\ [][(/\ Len(runs') = Len(runs) + 1
           /\ runs'[Len(runs')].chunks = 0) =>
             /\ call' = NoCall /\ call = NoCall
             /\ store' = store
             /\ nextUuid' = nextUuid
             /\ hasIndex' = hasIndex /\ createCalls' = createCalls]_vars

\* after a complete run the file was emptied: the next run stopped at split
EmptyRunStopsEarlyWitness ==
    /\ Len(runs) = 2
    /\ runs[1].outcome = "upserted"
    /\ runs[2].outcome = "no_chunks"
    /\ runs[2].source = runs[1].source
    /\ store # {}

(***************************************************************************)
(* The insert calls of upsert                                              *)
(***************************************************************************)
\* the inserts of hash h the call has made that did not raise
InsertsOf(h) == SelectSeq(call.log, LAMBDA e : IsInsert(e, h) /\ ~e.raised)

RECURSIVE VectorsOf(_)
VectorsOf(entries) ==
    IF entries = <<>> THEN <<>>
    ELSE Head(entries).vectors \o VectorsOf(Tail(entries))

\* the items of group g whose insert has been made
InsertedOf(g) ==
    IF g < call.gi THEN call.groups[g].items
    ELSE IF g = call.gi THEN SubSeq(call.groups[g].items, 1, call.bi)
    ELSE <<>>

\* C19: the inserts of a group are slices of the group in input order: each
\* of at most batch_size records, all but the group's last of exactly
\* batch_size, made one after the other, their concatenation the group's
\* records up to where the call is (all of them once the group is done), and
\* every store call uses the one namespace.
BatchesCoverGroup ==
    InCall =>
      /\ \A g \in DOMAIN call.groups :
            LET h == call.groups[g].hash
                ins == InsertsOf(h)
            IN  /\ VectorsOf(ins) = ToUpsert(InsertedOf(g))
                /\ \A k \in DOMAIN ins :
                      /\ Len(ins[k].vectors) \in 1..call.batch_size
                      /\ (k < Len(ins) \/ (g = call.gi /\ call.pc = "batch")) =>
                            Len(ins[k].vectors) = call.batch_size
                /\ \A i, j, k \in DOMAIN call.log :
                      (i < j /\ j < k /\ IsInsert(call.log[i], h)
                                      /\ IsInsert(call.log[k], h))
                      => IsInsert(call.log[j], h)
      /\ \A i \in DOMAIN call.log : call.log[i].namespace = Namespace
      /\ call.pc = "returned" =>
            \A i \in DOMAIN call.items :
                HasHash(call.items[i].metadata) =>
                    Cardinality({<<j, k>> \in (DOMAIN call.log) \X (1..(MaxItems + 1)) :
                                    /\ call.log[j].op = "upsert"
                                    /\ k \in DOMAIN call.log[j].vectors
                                    /\ call.log[j].vectors[k].id = call.items[i].id}) = 1

\* the call that created the index has inserted a group of two records in two
\* batches of one
BatchesCoverGroupWitness ==
    /\ call.pc = "returned"
    /\ call.created
    /\ call.batch_size = 1
    /\ Len(call.groups) = 1
    /\ Len(call.log) = 2
    /\ Len(InsertsOf(call.groups[1].hash)) = 2

\* C20: upsert sends only records with a hash to the store and deletes only
\* hashes of its items: a record without hash is never stored, a call whose
\* records all lack a hash makes no store call and does not raise, and the
\* call still creates the index, with the vector length of its first record,
\* when that record has no hash.
HashlessNeverStored ==
    InCall =>
      /\ \A j \in DOMAIN call.log :
            IF call.log[j].op = "upsert"
            THEN \A k \in DOMAIN call.log[j].vectors :
                    HasHash(call.log[j].vectors[k].metadata)
            ELSE \E i \in DOMAIN call.items :
                    /\ HasHash(call.items[i].metadata)
                    /\ call.items[i].metadata.hash = call.log[j].hash
      /\ \A i \in DOMAIN call.items :
            ~HasHash(call.items[i].metadata) =>
                call.items[i].id \notin {r.id : r \in store}
      /\ (call.items # <<>> /\ \A i \in DOMAIN call.items :
                                  ~HasHash(call.items[i].metadata)) =>
            /\ call.log = <<>>
            /\ store = call.pre
            /\ call.pc \in {"group", "returned"}
      /\ (call.created /\ ~HasHash(call.items[1].metadata)) =>
            /\ hasIndex
            /\ indexDim = Len(call.items[1].embedding)
            /\ mgr[call.mgr].index = Handle

\* a call whose first record has no hash created the index with that record's
\* vector length and stored only its second record
HashlessNeverStoredWitness ==
    /\ call.pc = "returned"
    /\ call.created
    /\ Len(call.items) = 2
    /\ ~HasHash(call.items[1].metadata)
    /\ HasHash(call.items[2].metadata)
    /\ indexDim = 1
    /\ Cardinality(store) = 1

====
